---------------------------- MODULE Spec2Model ----------------------------
(***************************************************************************)
(* The OLC prototype wizard of evennia/prototypes/menus.py as a state      *)
(* machine.  One EvMenu session: the in-progress prototype and the         *)
(* new-flag kept on the menu tree, the node the menu is at, and what the   *)
(* last handler rendered, sent and called.                                 *)
(*                                                                         *)
(* Conventions.  A Python str entered by the user or held in a prototype   *)
(* is a sequence of one-character strings; a Python list of str is a       *)
(* sequence of such sequences.  Field names, node names and callback       *)
(* names are the literals of the source and are TLA+ strings.  None, ''    *)
(* and [] are all falsy in Python and are all written << >>.  The module   *)
(* is Python 2 code (menus.py:143, "remove this when on py3"): a name      *)
(* bound by "except ... as err" stays bound after the handler, and str()   *)
(* of a unicode string with a non-ASCII character raises.                  *)
(***************************************************************************)
EXTENDS Integers, Sequences, FiniteSets, TLC

VARIABLES
    olc_prototype,  \* caller.ndb._menutree.olc_prototype (None is << >>)
    olc_new,        \* caller.ndb._menutree.olc_new: "absent", "True", "False"
    node,           \* name of the node the menu is at
    nodeback,       \* the "back" kwarg the current node was run with
    text,           \* what the current node rendered as its text
    options,        \* the options the current node rendered
    msgs,           \* caller.msg(...) calls of the last step
    calls,          \* calls into protlib / spawner made by the last step
    err,            \* exception (or menu error) raised by the last step
    last,           \* the goto-callback run by the last step, the text or
                    \* entry it was to set or load, and its return
    store,          \* keys of the prototypes the persistence layer holds
    edits           \* number of writes made to the in-progress prototype

vars == <<olc_prototype, olc_new, node, nodeback, text, options, msgs,
          calls, err, last, store, edits>>

---------------------------------------------------------------------------
(* Bounds *)

\* writes to the in-progress prototype in one run of the wizard
MaxEdits == 1

\* entries of attrs a prototype holds when the attribute helpers are called
MaxAttrs == 2

---------------------------------------------------------------------------
(* Strings *)

\* the non-ASCII character U+00E9
NonAscii == "e9"

LowerChar(c) == IF c = "B" THEN "b" ELSE IF c = "C" THEN "c" ELSE c

\* str.lower()
Lower(s) == [i \in 1..Len(s) |-> LowerChar(s[i])]

RECURSIVE LStrip(_)
LStrip(s) == IF s # << >> /\ Head(s) = " " THEN LStrip(Tail(s)) ELSE s

RECURSIVE RStrip(_)
RStrip(s) ==
    IF s # << >> /\ s[Len(s)] = " " THEN RStrip(SubSeq(s, 1, Len(s) - 1)) ELSE s

\* str.strip()
Strip(s) == RStrip(LStrip(s))

\* str.split(sep): always at least one part
RECURSIVE SplitAcc(_, _, _)
SplitAcc(s, sep, cur) ==
    IF s = << >> THEN <<cur>>
    ELSE IF Head(s) = sep THEN <<cur>> \o SplitAcc(Tail(s), sep, << >>)
    ELSE SplitAcc(Tail(s), sep, Append(cur, Head(s)))

Split(s, sep) == SplitAcc(s, sep, << >>)

\* str.split(sep, maxsplit)
RECURSIVE SplitMax(_, _, _, _)
SplitMax(s, sep, maxsplit, cur) ==
    IF s = << >> THEN <<cur>>
    ELSE IF Head(s) = sep /\ maxsplit > 0
         THEN <<cur>> \o SplitMax(Tail(s), sep, maxsplit - 1, << >>)
    ELSE SplitMax(Tail(s), sep, maxsplit, Append(cur, Head(s)))

\* sep in s
Contains(s, sep) == \E i \in 1..Len(s) : s[i] = sep

\* ", ".join(parts)
RECURSIVE Join(_)
Join(parts) ==
    IF parts = << >> THEN << >>
    ELSE IF Len(parts) = 1 THEN parts[1]
    ELSE parts[1] \o <<",", " ">> \o Join(Tail(parts))

IsAscii(s) == \A i \in 1..Len(s) : s[i] # NonAscii

\* Python truthiness of a str, list or None
Truthy(v) == v # << >>

---------------------------------------------------------------------------
(* Dictionaries *)

EmptyDict == << >>

Get(d, f) == IF f \in DOMAIN d THEN d[f] ELSE << >>

Put(d, f, v) == (f :> v) @@ d

\* dict.pop(f, None)
Pop(d, f) == [k \in DOMAIN d \ {f} |-> d[k]]

---------------------------------------------------------------------------
(* The world outside the module: user input, the persistence layer, the    *)
(* typeclass registry, the caller.                                         *)

\* what the user may type at a free-text prompt
RawInputs ==
    { <<" ">>, <<"a">>, <<"B">>, <<"a", ",", "B", " ">>, <<NonAscii>> }

\* the prototypes the persistence layer may hold, by prototype_key
DB ==
    ( <<"a">> :> ( "prototype_key" :> <<"a">> @@
                   "prototype_parent" :> <<"b">> @@
                   "prototype_locks" :> <<"y">> ) ) @@
    ( <<"b">> :> ( "prototype_key" :> <<"b">> @@
                   "typeclass" :> <<"m", ".", "C">> @@
                   "prototype_locks" :> <<"n">> ) )

\* the stored prototypes another user of the persistence layer may delete
\* while the wizard runs
Deletable == { <<"b">> }

\* utils.get_all_typeclasses(): the typeclass paths on offer
Typeclasses == { <<"m", ".", "C">> }

\* caller.locks.check_lockstring(caller, lockstring, access_type='edit')
PassesEdit(lockstring) == lockstring = <<"y">>

\* protlib.search_prototype(key): the stored prototypes of that key, matched
\* without regard to case
SearchPrototype(st, key) == { DB[k] : k \in { x \in st : x = Lower(key) } }

\* protlib.search_prototype(): all stored prototypes
AllPrototypes(st) == { DB[k] : k \in st }

\* protlib.search_objects_with_prototype(key): the objects spawned from it
SpawnedObjects(key) == IF key = <<"a">> THEN {"obj1"} ELSE {}

\* outcomes of spawner.spawn(prototype, only_validate=True)
ValidationOutcomes == {"ok", "RuntimeError", "RuntimeWarning"}

\* outcomes of protlib.protfunc_parser(value, testing=True)
ParseOutcomes == {"same", "differs", "error"}

---------------------------------------------------------------------------
(* Helper functions *)

None == "None"

\* the menu tree's two attributes, as the helpers read and write them
MenuTree(p, n) == [olc_prototype |-> p, olc_new |-> n]

\* GetMenuPrototype marking every prototype it returns as new
GetMenuPrototypeMarking(mt) ==
    MenuTree(IF Truthy(mt.olc_prototype) THEN mt.olc_prototype ELSE EmptyDict,
             "True")

\* _get_menu_prototype: a missing or empty prototype is replaced by {} and
\* marked new
GetMenuPrototype(mt) ==
    IF ~Truthy(mt.olc_prototype) THEN MenuTree(EmptyDict, "True") ELSE mt

\* _set_menu_prototype
SetMenuPrototype(mt, prototype) == MenuTree(prototype, "False")

\* _is_new_prototype: hasattr(menutree, "olc_new")
IsNewPrototype(mt) == mt.olc_new # "absent"

\* the fields whose values are lists
ListFields == {"aliases", "attrs", "tags", "permissions", "prototype_tags"}

_MENU_CROP_WIDTH == 15

\* utils.crop(text, width): longer texts are cut and end in "[...]"
Crop(s, width) ==
    IF Len(s) <= width THEN s ELSE SubSeq(s, 1, width - 5) \o <<"[...]">>

\* _path_cropper: pythonpath.split('.')[-1]
PathCropper(pythonpath) ==
    LET parts == Split(pythonpath, ".") IN parts[Len(parts)]

Required == <<"|rrequired">>

\* _format_option_value(prop, required, prototype, cropper): the text between
\* " (" and "|n)".  cropper is "path" for _path_cropper, "" for None.
FormatOptionValue(prop, required, prototype, cropper) ==
    LET val  == Get(prototype, prop)
        out1 == IF Truthy(val) /\ prop \in ListFields THEN Join(val) ELSE val
        out  == IF ~Truthy(out1) /\ required THEN Required ELSE out1
    IN  IF cropper = "path" THEN PathCropper(out) ELSE Crop(out, _MENU_CROP_WIDTH)

\* _set_prototype_value
SetPrototypeValue(mt, field, value) ==
    LET got == GetMenuPrototype(mt)
    IN  MenuTree(Put(got.olc_prototype, field, value), got.olc_new)

\* The processors the nodes pass to _set_property, by name:
\*   "str"         str
\*   "strip"       lambda s: s.strip()
\*   "strip_lower" lambda s: s.strip().lower()
\*   "split"       lambda s: [part.strip() for part in s.split(",")]
\*   "split_lower" lambda s: [str(part.strip().lower()) for part in s.split(",")]
\*   ""            no processor
ProcessorRaises(processor, raw_string) ==
    processor \in {"str", "split_lower"} /\ ~IsAscii(raw_string)

ProcessorValue(processor, raw_string) ==
    CASE processor = "strip"       -> Strip(raw_string)
      [] processor = "strip_lower" -> Lower(Strip(raw_string))
      [] processor = "split"       ->
            LET parts == Split(raw_string, ",")
            IN  [i \in 1..Len(parts) |-> Strip(parts[i])]
      [] processor = "split_lower" ->
            LET parts == Split(raw_string, ",")
            IN  [i \in 1..Len(parts) |-> Lower(Strip(parts[i]))]
      [] OTHER                     -> raw_string

\* what a goto-callback leaves behind: the menu tree, the messages sent, the
\* external calls made, the value returned and the exception raised, if any
Result(mt, m, c, ret, raised) ==
    [olc_prototype |-> mt.olc_prototype, olc_new |-> mt.olc_new,
     msgs |-> m, calls |-> c, ret |-> ret, raised |-> raised]

Msg(kind, prop, value) == [kind |-> kind, prop |-> prop, value |-> value]

Call(fn, arg, only_validate) ==
    [fn |-> fn, arg |-> arg, only_validate |-> only_validate]

\* the lines _set_property adds for the simulated protfunc parse
ParseLines(test_parse, parse) ==
    IF ~test_parse THEN << >>
    ELSE IF parse = "error" THEN <<"literal_eval warning", "No change when parsed">>
    ELSE IF parse = "differs" THEN <<"value when parsed">>
    ELSE <<"No change when parsed">>

\* DropExclusive with the two pops forgotten
DropExclusiveForgotten(prototype, propname_low) == prototype

\* lines 134-138 of _set_property: typeclass and prototype_parent can't co-exist
DropExclusive(prototype, propname_low) ==
    LET p1 == IF propname_low = "typeclass"
              THEN Pop(prototype, "prototype_parent") ELSE prototype
    IN  IF propname_low = "prototype_parent" THEN Pop(p1, "typeclass") ELSE p1

\* SetProperty without the try/except around the processor: the exception
\* reaches the menu, and falsy values are set like any other
SetPropertyUncaught(mt, raw_string, prop, processor, next_node, test_parse, parse) ==
    IF processor # "" /\ ProcessorRaises(processor, raw_string)
    THEN Result(mt, << >>, << >>, None, "UnicodeEncodeError")
    ELSE
      LET value == ProcessorValue(processor, raw_string)
          set == SetPrototypeValue(mt, prop, value)
      IN  IF ~Truthy(value) THEN Result(mt, << >>, << >>, next_node, "")
          ELSE Result(MenuTree(DropExclusive(set.olc_prototype, prop), set.olc_new),
                      << >>, << >>, next_node, "")

\* SetProperty writing what the parser made of a value it changed
SetPropertyParsed(mt, raw_string, prop, processor, next_node, test_parse, parse) ==
    LET r == SetPropertyUncaught(mt, raw_string, prop, processor, next_node,
                                 test_parse, parse)
    IN  IF test_parse /\ parse = "differs" /\ prop \in DOMAIN r.olc_prototype
        THEN [r EXCEPT !.olc_prototype = Put(@, prop, <<"parsed">>),
                       !.msgs = <<[kind |-> "Set", prop |-> prop,
                                   value |-> <<"parsed">>,
                                   parse |-> ParseLines(test_parse, parse)]>>]
        ELSE [r EXCEPT !.msgs = <<[kind |-> "Set", prop |-> prop,
                                   value |-> ProcessorValue(processor, raw_string),
                                   parse |-> ParseLines(test_parse, parse)]>>]

\* _set_property(caller, raw_string, prop=, processor=, next_node=, test_parse=);
\* parse is the outcome of protlib.protfunc_parser on the value
SetProperty(mt, raw_string, prop, processor, next_node, test_parse, parse) ==
    IF processor # "" /\ ProcessorRaises(processor, raw_string)
    THEN Result(mt, <<Msg("Could not set", prop, raw_string)>>, << >>, None, "")
    ELSE
      LET value == ProcessorValue(processor, raw_string) IN
      IF ~Truthy(value) THEN Result(mt, << >>, << >>, next_node, "")
      ELSE
        LET set == SetPrototypeValue(mt, prop, value)
            prototype == DropExclusive(set.olc_prototype, prop)
        IN  Result(MenuTree(prototype, set.olc_new),
                   <<[kind |-> "Set", prop |-> prop, value |-> value,
                      parse |-> ParseLines(test_parse, parse)]>>,
                   IF test_parse
                   THEN <<Call("protfunc_parser", value, FALSE)>> ELSE << >>,
                   next_node, "")

\* an option of a node.  goto is the name of the node to go to, or "" when
\* the option runs the goto-callback cb; back, arg, prop, processor and
\* next_node are the keyword arguments the option carries.
Option(key, label, desc, goto, cb, back, arg, prop, processor, next_node) ==
    [key |-> key, label |-> label, desc |-> desc, goto |-> goto, cb |-> cb,
     back |-> back, arg |-> arg, prop |-> prop, processor |-> processor,
     next_node |-> next_node]

GotoOption(key, goto) == Option(key, "", << >>, goto, "", "", << >>, "", "", "")

CallbackOption(key, cb, arg) ==
    Option(key, "", << >>, "", cb, "", arg, "", "", "")

SetPropertyOption(prop, processor, next_node) ==
    Option("_default", "", << >>, "", "_set_property", "", << >>,
           prop, processor, next_node)

\* _wizard_options(curr_node, prev_node, next_node); "" stands for None
WizardOptions(curr_node, prev_node, next_node) ==
    (IF prev_node # "" THEN {GotoOption("b", "node_" \o prev_node)} ELSE {})
    \cup
    (IF next_node # "" THEN {GotoOption("f", "node_" \o next_node)} ELSE {})
    \cup
    (IF "index" \notin {prev_node, next_node}
     THEN {GotoOption("i", "node_index")} ELSE {})
    \cup
    (IF curr_node # ""
     THEN {Option("v", "", << >>, "node_view_prototype", "", curr_node,
                  << >>, "", "", "")}
     ELSE {})

Text(kind, val) == [kind |-> kind, val |-> val]

\* ValidatePrototype calling spawner.spawn without only_validate
ValidatePrototypeSpawning(prototype, outcome) ==
    [err   |-> outcome # "ok",
     text  |-> Text(IF outcome = "ok" THEN "No validation errors found"
                    ELSE "validation error", prototype),
     calls |-> <<Call("prototype_to_str", prototype, FALSE),
                 Call("spawner.spawn", prototype, FALSE)>>]

\* _validate_prototype(prototype); outcome is what spawner.spawn(prototype,
\* only_validate=True) does: return, raise RuntimeError or raise RuntimeWarning.
\* The two error texts differ in colour only and are one text here.
ValidatePrototype(prototype, outcome) ==
    [err   |-> outcome # "ok",
     text  |-> Text(IF outcome = "ok" THEN "No validation errors found"
                    ELSE "validation error", prototype),
     calls |-> <<Call("prototype_to_str", prototype, FALSE),
                 Call("spawner.spawn", prototype, TRUE)>>]

---------------------------------------------------------------------------
(* Menu nodes.  A node returns what it leaves on the menu tree, its text,  *)
(* its options, the external calls it made and the exception it raised.    *)

Rendered(mt, txt, opts, c, raised) ==
    [olc_prototype |-> mt.olc_prototype, olc_new |-> mt.olc_new,
     text |-> txt, options |-> opts, calls |-> c, raised |-> raised]

NoText == Text("", << >>)

\* "current value" / "unset" text of a field node
FieldText(value) == IF Truthy(value) THEN Text("current", value) ELSE Text("unset", << >>)

\* key.lower() of the option names node_index loops over
LowerName(key) ==
    CASE key = "Typeclass"        -> "typeclass"
      [] key = "Prototype-parent" -> "prototype-parent"
      [] key = "Key"              -> "key"
      [] key = "Aliases"          -> "aliases"
      [] key = "Attrs"            -> "attrs"
      [] key = "Tags"             -> "tags"
      [] key = "Locks"            -> "locks"
      [] key = "Permissions"      -> "permissions"
      [] key = "Location"         -> "location"
      [] key = "Home"             -> "home"
      [] key = "Destination"      -> "destination"
      [] key = "Desc"             -> "desc"
      [] key = "Save"             -> "save"
      [] key = "Spawn"            -> "spawn"
      [] key = "Load"             -> "load"
      [] OTHER                    -> key

IndexFields ==
    {"Typeclass", "Prototype-parent", "Key", "Aliases", "Attrs", "Tags", "Locks",
     "Permissions", "Location", "Home", "Destination"}

IndexPrototypeFields == {"Desc", "Tags", "Locks"}

IndexActions == {"Save", "Spawn", "Load"}

\* the field name node_index looks up for the option named key
IndexProp(key) == key

\* one option of node_index
IndexOption(label, prop, required, prototype, cropper, goto) ==
    Option("", label, FormatOptionValue(prop, required, prototype, cropper),
           goto, "", "", << >>, "", "", "")

\* node_index
NodeIndex(mt) ==
    LET got == GetMenuPrototype(mt)
        prototype == got.olc_prototype
        required(key) ==
            IF key \in {"Prototype-parent", "Typeclass"}
            THEN "prototype" \notin DOMAIN prototype
                 /\ "typeclass" \notin DOMAIN prototype
            ELSE FALSE
    IN  Rendered(got, Text("Prototype wizard", << >>),
          {IndexOption("Prototype-Key", IndexProp("Key"), TRUE, prototype, "",
                       "node_prototype_key")}
          \cup
          {IndexOption(key, IndexProp(key), required(key), prototype,
                       IF key = "Typeclass" THEN "path" ELSE "",
                       "node_" \o LowerName(key)) : key \in IndexFields}
          \cup
          {IndexOption("Prototype-" \o key, IndexProp(key), FALSE, prototype, "",
                       "node_prototype_" \o LowerName(key))
             : key \in IndexPrototypeFields}
          \cup
          {Option(key, key, << >>, "node_prototype_" \o LowerName(key), "", "",
                  << >>, "", "", "") : key \in IndexActions},
          << >>, "")

\* node_view_prototype(caller, raw_string, back=, validate=)
NodeViewPrototype(mt, back, validate, outcome) ==
    LET got == GetMenuPrototype(mt)
        prototype == got.olc_prototype
        v == ValidatePrototype(prototype, outcome)
        prev_node == IF back = "" THEN "node_index" ELSE back
    IN  Rendered(got,
                 IF validate THEN v.text ELSE Text("prototype_to_str", prototype),
                 WizardOptions("", prev_node, ""),
                 IF validate THEN v.calls
                 ELSE <<Call("prototype_to_str", prototype, FALSE)>>,
                 "")

\* a node that shows one field and sets one property from free text
FieldNode(mt, readfield, curr_node, prev_node, next_node, prop, processor, goto) ==
    LET got == GetMenuPrototype(mt)
    IN  Rendered(got, FieldText(Get(got.olc_prototype, readfield)),
                 WizardOptions(curr_node, prev_node, next_node)
                 \cup {SetPropertyOption(prop, processor, goto)},
                 << >>, "")

\* node_prototype_key
NodePrototypeKey(mt) ==
    LET got == GetMenuPrototype(mt)
    IN  Rendered(got, FieldText(Get(got.olc_prototype, "prototype_key")),
                 WizardOptions("prototype_key", "index", "prototype")
                 \cup {CallbackOption("_default", "_check_prototype_key", << >>)},
                 << >>, "")

\* _all_prototype_parents
AllPrototypeParents(st) ==
    { prototype["prototype_key"] :
        prototype \in { q \in AllPrototypes(st) : "prototype_key" \in DOMAIN q } }

\* @list_node(option_generator, select): one option per listed entry, each
\* calling select with the entry, then the decorated node's own options
ListNode(entries, select, rendered) ==
    [rendered EXCEPT !.options =
        { CallbackOption("select", select, e) : e \in entries } \cup @]

\* the field node_prototype_parent reads
ParentReadField == "prototype"

\* node_prototype_parent
NodePrototypeParent(mt, st) ==
    LET got == GetMenuPrototype(mt)
        prot_parent_key == Get(got.olc_prototype, ParentReadField)
        opts == WizardOptions("prototype", "prototype_key", "typeclass")
                \cup {CallbackOption("_default", "_prototype_parent_examine", << >>)}
    IN  ListNode(AllPrototypeParents(st), "_prototype_parent_select",
          IF Truthy(prot_parent_key)
          THEN \* both format calls name a field they are not given
               Rendered(got, NoText, {},
                        <<Call("search_prototype", prot_parent_key, FALSE)>>,
                        IF SearchPrototype(st, prot_parent_key) # {}
                        THEN "IndexError" ELSE "KeyError")
          ELSE Rendered(got, Text("unset", << >>), opts, << >>, ""))

\* node_typeclass
NodeTypeclass(mt) ==
    LET got == GetMenuPrototype(mt)
    IN  ListNode(Typeclasses, "_typeclass_select",
          Rendered(got, FieldText(Get(got.olc_prototype, "typeclass")),
                   WizardOptions("typeclass", "prototype", "key")
                   \cup {CallbackOption("_default", "_typeclass_examine", << >>)},
                   << >>, ""))

NodeKey(mt) ==
    FieldNode(mt, "key", "key", "typeclass", "aliases", "key", "strip", "node_aliases")

NodeAliases(mt) ==
    FieldNode(mt, "aliases", "aliases", "key", "attrs",
              "aliases", "split", "node_attrs")

\* node_attrs: @list_node(_caller_attrs), no select
NodeAttrs(mt) ==
    FieldNode(mt, "attrs", "attrs", "aliases", "tags", "attrs", "split", "node_tags")

\* node_tags: @list_node(_caller_tags), no select, no free-text setter
NodeTags(mt) ==
    Rendered(GetMenuPrototype(mt), Text("Tags", << >>),
             WizardOptions("tags", "attrs", "locks"), << >>, "")

NodeLocks(mt) ==
    FieldNode(mt, "locks", "locks", "tags", "permissions",
              "locks", "strip", "node_permissions")

NodePermissions(mt) ==
    FieldNode(mt, "permissions", "permissions", "destination", "location",
              "permissions", "split", "node_location")

NodeLocation(mt) ==
    FieldNode(mt, "location", "location", "permissions", "home",
              "location", "strip", "node_home")

NodeHome(mt) ==
    FieldNode(mt, "home", "home", "aliases", "destination",
              "home", "strip", "node_destination")

NodeDestination(mt) ==
    FieldNode(mt, "dest", "destination", "home", "prototype_desc",
              "dest", "strip", "node_prototype_desc")

NodePrototypeDesc(mt) ==
    FieldNode(mt, "prototype_desc", "prototype_desc", "prototype_key",
              "prototype_tags", "prototype_desc", "strip", "node_prototype_tags")

NodePrototypeTags(mt) ==
    FieldNode(mt, "prototype_tags", "prototype_tags", "prototype_desc",
              "prototype_locks", "prototype_tags", "split_lower",
              "node_prototype_locks")

NodePrototypeLocks(mt) ==
    FieldNode(mt, "prototype_locks", "prototype_locks", "prototype_tags", "index",
              "prototype_locks", "strip_lower", "node_index")

\* the options of node_prototype_save once validation has passed
SaveOptions ==
    {CallbackOption("yes", "lambda:node_prototype_save", << >>),
     GotoOption("n", "node_spawn"),
     CallbackOption("_default", "lambda:node_prototype_save", << >>)}

\* NodePrototypeSave with the "if error" abort left out
NodePrototypeSaveUngated(mt, st, accept, kwprototype, outcome) ==
    LET got == GetMenuPrototype(mt)
        v == ValidatePrototype(got.olc_prototype, outcome)
    IN  Rendered(got, v.text, SaveOptions, v.calls, "")

\* node_prototype_save(caller, accept=, prototype=); kwprototype is the
\* prototype keyword, << >> when not given
NodePrototypeSave(mt, st, accept, kwprototype, outcome) ==
    IF accept /\ Truthy(kwprototype)
    THEN \* acts as a goto-callback: returns the next node as its "text"
         Rendered(mt, Text("node_spawn", << >>), {},
                  <<Call("save_prototype", kwprototype, FALSE)>>, "")
    ELSE
      LET got == GetMenuPrototype(mt)
          prototype == got.olc_prototype
          v == ValidatePrototype(prototype, outcome)
      IN  IF v.err
          THEN Rendered(got, v.text,
                        WizardOptions("prototype_save", "prototype_locks", "index"),
                        v.calls, "")
          ELSE IF "prototype_key" \notin DOMAIN prototype
          THEN Rendered(got, NoText, {}, v.calls, "KeyError")
          ELSE IF SearchPrototype(st, prototype["prototype_key"]) = {}
          THEN \* "...'{name}'?".format(prototype_key)
               Rendered(got, NoText, {},
                        Append(v.calls, Call("search_prototype",
                                             prototype["prototype_key"], FALSE)),
                        "KeyError")
          ELSE Rendered(got, Text("save/overwrite", prototype["prototype_key"]),
                        SaveOptions,
                        Append(v.calls, Call("search_prototype",
                                             prototype["prototype_key"], FALSE)),
                        "")

\* the caller and caller.location: objects, never equal to a prototype's
\* location string
Caller == <<"caller">>

CallerLocation == <<"caller.location">>

\* the location keyword of the _spawn options node_prototype_spawn offers;
\* << >> is the option that passes none
SpawnLocations(location) ==
    (IF Truthy(location) THEN {<< >>} ELSE {})
    \cup (IF location # CallerLocation THEN {CallerLocation} ELSE {})
    \cup (IF location # CallerLocation /\ CallerLocation # Caller
          THEN {Caller} ELSE {})

\* NodePrototypeSpawn with the "if error" abort left out
NodePrototypeSpawnUngated(mt, outcome) ==
    LET got == GetMenuPrototype(mt)
        v == ValidatePrototype(got.olc_prototype, outcome)
    IN  Rendered(got, v.text,
                 { CallbackOption("spawn", "_spawn", loc)
                     : loc \in SpawnLocations(Get(got.olc_prototype, "location")) }
                 \cup WizardOptions("prototype_spawn", "prototype_save", "index"),
                 v.calls, "")

\* node_prototype_spawn
NodePrototypeSpawn(mt, outcome) ==
    LET got == GetMenuPrototype(mt)
        prototype == got.olc_prototype
        v == ValidatePrototype(prototype, outcome)
    IN  IF v.err
        THEN Rendered(got, v.text,
                      WizardOptions("prototype_spawn", "prototype_locks", "index"),
                      v.calls, "")
        ELSE IF "prototype_key" \notin DOMAIN prototype
        THEN Rendered(got, NoText, {}, v.calls, "KeyError")
        ELSE
          LET spawned_objects == SpawnedObjects(prototype["prototype_key"])
          IN  Rendered(got, v.text,
                { CallbackOption("spawn", "_spawn", loc)
                    : loc \in SpawnLocations(Get(prototype, "location")) }
                \cup
                (IF spawned_objects # {}
                 THEN {CallbackOption("update", "_update_spawned", << >>)}
                 ELSE {})
                \cup WizardOptions("prototype_spawn", "prototype_save", "index"),
                Append(v.calls, Call("search_objects_with_prototype",
                                     prototype["prototype_key"], FALSE)),
                "")

\* node_prototype_load
NodePrototypeLoad(mt, st) ==
    ListNode(AllPrototypeParents(st), "_prototype_load_select",
      Rendered(mt, Text("Select a prototype to load", << >>),
               WizardOptions("load", "save", "index")
               \cup {CallbackOption("_default", "_prototype_parent_examine", << >>)},
               << >>, ""))

\* menudata of start_olc: the names the menu knows
RegisteredNodes ==
    {"node_index", "node_view_prototype", "node_prototype_key",
     "node_prototype_parent", "node_typeclass", "node_key", "node_aliases",
     "node_attrs", "node_tags", "node_locks", "node_permissions",
     "node_location", "node_home", "node_destination", "node_prototype_desc",
     "node_prototype_tags", "node_prototype_locks", "node_prototype_load",
     "node_prototype_save", "node_prototype_spawn"}

\* menudata of start_olc: the node function of each name, run as EvMenu runs
\* it (no keyword arguments but those of the goto)
RunNode(name, mt, st, back, outcome) ==
    CASE name = "node_index"            -> NodeIndex(mt)
      [] name = "node_view_prototype"   -> NodeViewPrototype(mt, back, TRUE, outcome)
      [] name = "node_prototype_key"    -> NodePrototypeKey(mt)
      [] name = "node_prototype_parent" -> NodePrototypeParent(mt, st)
      [] name = "node_typeclass"        -> NodeTypeclass(mt)
      [] name = "node_key"              -> NodeKey(mt)
      [] name = "node_aliases"          -> NodeAliases(mt)
      [] name = "node_attrs"            -> NodeAttrs(mt)
      [] name = "node_tags"             -> NodeTags(mt)
      [] name = "node_locks"            -> NodeLocks(mt)
      [] name = "node_permissions"      -> NodePermissions(mt)
      [] name = "node_location"         -> NodeLocation(mt)
      [] name = "node_home"             -> NodeHome(mt)
      [] name = "node_destination"      -> NodeDestination(mt)
      [] name = "node_prototype_desc"   -> NodePrototypeDesc(mt)
      [] name = "node_prototype_tags"   -> NodePrototypeTags(mt)
      [] name = "node_prototype_locks"  -> NodePrototypeLocks(mt)
      [] name = "node_prototype_load"   -> NodePrototypeLoad(mt, st)
      [] name = "node_prototype_save"   ->
            NodePrototypeSave(mt, st, FALSE, << >>, outcome)
      [] name = "node_prototype_spawn"  -> NodePrototypeSpawn(mt, outcome)

\* the nodes that run the validation
ValidatingNodes ==
    {"node_view_prototype", "node_prototype_save", "node_prototype_spawn"}

---------------------------------------------------------------------------
(* The attribute helpers.  No node of the menu calls them.  An entry of    *)
(* attrs is the tuple (attrname, category, locks), as a stored prototype   *)
(* holds it; the category None is << >>.                                   *)

AttrTuple(attrname, category, locks) ==
    [attrname |-> attrname, category |-> category, locks |-> locks]

\* lines 491-504 of _add_attr: the tuple parsed from attr_string
ParseAttr(attr_string) ==
    IF ~Contains(attr_string, "=") THEN AttrTuple(<< >>, << >>, << >>)
    ELSE
      LET halves == SplitMax(attr_string, "=", 1, << >>)
          attrname == Lower(Strip(halves[1]))
          nameparts == SplitMax(attrname, ";", 2, << >>)
      IN  IF Len(nameparts) = 2
          THEN AttrTuple(nameparts[1], nameparts[2], << >>)
          ELSE IF Len(nameparts) > 2
          THEN AttrTuple(nameparts[1], nameparts[2], nameparts[3])
          ELSE AttrTuple(attrname, << >>, << >>)

\* [tup[0] for tup in attrs].index(attrname): 0 when the name is not there,
\* where list.index raises ValueError
IndexOf(attrs, attrname) ==
    IF \E i \in 1..Len(attrs) : attrs[i].attrname = attrname
    THEN CHOOSE i \in 1..Len(attrs) :
            /\ attrs[i].attrname = attrname
            /\ \A j \in 1..(i - 1) : attrs[j].attrname # attrname
    ELSE 0

\* the one option _add_attr returns: lambda caller: None
AddAttrOptions == {CallbackOption("_default", "lambda:None", << >>)}

\* _add_attr(caller, attr_string, text=, edit=); kwtext is the text keyword,
\* << >> when not given
AddAttr(mt, attr_string, kwtext, edit) ==
    LET attr_tuple == ParseAttr(attr_string) IN
    IF ~Truthy(attr_tuple.attrname)
    THEN Rendered(mt, Text("Attribute must be given as", << >>), AddAttrOptions,
                  << >>, "")
    ELSE
      LET got == GetMenuPrototype(mt)
          attrs == Get(got.olc_prototype, "attrs")
          ind == IndexOf(attrs, attr_tuple.attrname)
      IN  IF ind = 0
          THEN \* ValueError is not the IndexError the handler catches
               Rendered(got, NoText, {}, << >>, "ValueError")
          ELSE
            LET set == SetPrototypeValue(got, "attrs",
                                         [attrs EXCEPT ![ind] = attr_tuple])
            IN  IF Truthy(kwtext)
                THEN Rendered(set, Text("text given", kwtext), AddAttrOptions,
                              << >>, "")
                ELSE \* _display_attribute unpacks five values from the tuple
                     Rendered(set, NoText, {}, << >>, "ValueError")

\* _edit_attr(caller, attrname, new_value)
EditAttr(mt, attrname, new_value) ==
    AddAttr(mt, attrname \o <<"=">> \o new_value, << >>, TRUE)

---------------------------------------------------------------------------
(* Goto-callbacks *)

\* a returned string that is a text, not the name of a node
TextRet == "<text>"

\* CheckPrototypeKey without the check of the 'edit' lock
CheckPrototypeKeyUnlocked(mt, st, raw_key, parse) ==
    LET found == SearchPrototype(st, raw_key)
        searched == <<Call("search_prototype", raw_key, FALSE)>>
    IN  IF found # {} /\ IsNewPrototype(mt)
        THEN Result(MenuTree(CHOOSE q \in found : TRUE, "absent"),
                    <<Msg("Prototype already exists. Reloading.", "", << >>)>>,
                    searched, "node_index", "")
        ELSE LET r == SetProperty(mt, Lower(Strip(raw_key)), "prototype_key", "",
                                  "node_prototype_parent", TRUE, parse)
             IN  [r EXCEPT !.calls = searched \o @]

\* _check_prototype_key(caller, key)
CheckPrototypeKey(mt, st, raw_key, parse) ==
    LET found == SearchPrototype(st, raw_key)
        olc_new_ == IsNewPrototype(mt)
        key == Lower(Strip(raw_key))
        searched == <<Call("search_prototype", raw_key, FALSE)>>
    IN  IF found # {} /\ ~PassesEdit((CHOOSE q \in found : TRUE)["prototype_locks"])
        THEN Result(mt, <<Msg("no permission to edit", "prototype_key", key)>>,
                    searched, "node_prototype_key", "")
        ELSE IF found # {} /\ olc_new_
        THEN Result(MenuTree(CHOOSE q \in found : TRUE, "absent"),
                    <<Msg("Prototype already exists. Reloading.", "", << >>)>>,
                    searched, "node_index", "")
        ELSE LET r == SetProperty(mt, key, "prototype_key", "",
                                  "node_prototype_parent", TRUE, parse)
             IN  [r EXCEPT !.calls = searched \o @]

\* _prototype_parent_examine(caller, prototype_name)
PrototypeParentExamine(mt, st, prototype_name) ==
    LET found == SearchPrototype(st, prototype_name)
        searched == <<Call("search_prototype", prototype_name, FALSE)>>
    IN  IF found # {}
        THEN Result(mt, <<Msg("prototype_to_str", "", << >>)>>,
                    Append(searched, Call("prototype_to_str",
                                          CHOOSE q \in found : TRUE, FALSE)),
                    TextRet, "")
        ELSE Result(mt, <<Msg("Prototype not registered.", "", << >>)>>,
                    searched, None, "")

\* _prototype_parent_select(caller, prototype): list_node passes the selected
\* entry of _all_prototype_parents, a prototype_key; prototype['prototype_key']
\* on a string raises before anything is set
PrototypeParentSelect(mt, prototype) == Result(mt, << >>, << >>, None, "TypeError")

\* _typeclass_examine(caller, typeclass_path): the text it shows is also what
\* it returns
TypeclassExamine(mt, typeclass_path) ==
    Result(mt, <<Msg(IF typeclass_path \in Typeclasses
                     THEN "First paragraph of docstring" ELSE "This is typeclass",
                     "", << >>)>>,
           << >>, TextRet, "")

\* _typeclass_select(caller, typeclass)
TypeclassSelect(mt, typeclass, parse) ==
    LET r == SetProperty(mt, typeclass, "typeclass", "str", "node_key", TRUE, parse)
    IN  [r EXCEPT !.msgs = Append(@, Msg("Selected typeclass", "", typeclass))]

\* PrototypeLoadSelect that does not look at what the search returned
PrototypeLoadSelectUnchecked(mt, st, prototype_key) ==
    LET matches == SearchPrototype(st, prototype_key)
    IN  Result(SetMenuPrototype(mt, IF matches # {} THEN CHOOSE q \in matches : TRUE
                                    ELSE EmptyDict),
               <<Msg("Loaded prototype", "", prototype_key)>>,
               <<Call("search_prototype", prototype_key, FALSE)>>, "node_index", "")

\* _prototype_load_select(caller, prototype_key)
PrototypeLoadSelect(mt, st, prototype_key) ==
    LET matches == SearchPrototype(st, prototype_key)
        searched == <<Call("search_prototype", prototype_key, FALSE)>>
    IN  IF matches # {}
        THEN Result(SetMenuPrototype(mt, CHOOSE q \in matches : TRUE),
                    <<Msg("Loaded prototype", "", prototype_key)>>,
                    searched, "node_index", "")
        ELSE Result(mt, <<Msg("Failed to load prototype", "", prototype_key)>>,
                    searched, None, "")

\* the yes and _default options of node_prototype_save:
\* lambda caller: node_prototype_save(caller, {"accept": True, "prototype": ...})
\* passes the dict as a second positional argument of a function that takes one
SaveAccept(mt, prototype) == Result(mt, << >>, << >>, None, "TypeError")

\* _spawn(caller, prototype=, location=); spawned tells whether spawner.spawn
\* returned an object
Spawn(mt, prototype, new_location, spawned) ==
    LET p == IF Truthy(new_location)
             THEN Put(prototype, "location", new_location) ELSE prototype
    IN  Result(mt,
               <<Msg(IF spawned THEN "New instance spawned"
                     ELSE "Spawner did not return a new instance", "", << >>)>>,
               <<Call("spawner.spawn", p, FALSE)>>, None, "")

\* _update_spawned(caller, prototype=, opjects=): kwargs['objects'] is not there
UpdateSpawned(mt, prototype) == Result(mt, << >>, << >>, None, "KeyError")

---------------------------------------------------------------------------
(* The menu engine: how EvMenu runs an option of the current node.         *)

\* the goto-callbacks that write a property of the in-progress prototype
Setters == {"_set_property", "_check_prototype_key", "_typeclass_select",
            "_prototype_parent_select"}

NotRegistered == "EvMenuError: node not in menu tree"

\* the validation outcomes a node can meet
Outcomes(name) == IF name \in ValidatingNodes THEN ValidationOutcomes ELSE {"ok"}

\* the menu stays where it is: after an exception, or a goto it cannot follow
Stay(mt, m, c, e) ==
    /\ olc_prototype' = mt.olc_prototype
    /\ olc_new' = mt.olc_new
    /\ msgs' = m
    /\ calls' = c
    /\ err' = e
    /\ UNCHANGED <<node, nodeback, text, options>>

\* EvMenu.goto(target, back=...): run the node of that name and show it
Goto(mt, target, back, m, c) ==
    IF target \notin RegisteredNodes
    THEN Stay(mt, m, c, NotRegistered)
    ELSE \E outcome \in Outcomes(target) :
           LET r == RunNode(target, mt, store, back, outcome)
           IN  IF r.raised # ""
               THEN Stay(MenuTree(r.olc_prototype, r.olc_new), m, c \o r.calls,
                         r.raised)
               ELSE /\ olc_prototype' = r.olc_prototype
                    /\ olc_new' = r.olc_new
                    /\ node' = target
                    /\ nodeback' = back
                    /\ text' = r.text
                    /\ options' = r.options
                    /\ msgs' = m
                    /\ calls' = c \o r.calls
                    /\ err' = ""

\* what EvMenu does with the result of goto-callback op: an exception leaves
\* the menu where it is, None runs the current node again, a string is the
\* name of the node to go to
Finish(op, arg, r) ==
    LET mt == MenuTree(r.olc_prototype, r.olc_new)
        wrote == op \in Setters /\ r.olc_prototype # olc_prototype
    IN  /\ edits + (IF wrote THEN 1 ELSE 0) <= MaxEdits
        /\ edits' = edits + (IF wrote THEN 1 ELSE 0)
        /\ last' = [op |-> op, arg |-> arg, ret |-> r.ret]
        /\ store' = store
        /\ IF r.raised # "" THEN Stay(mt, r.msgs, r.calls, r.raised)
           ELSE IF r.ret = None THEN Goto(mt, node, nodeback, r.msgs, r.calls)
           ELSE Goto(mt, r.ret, "", r.msgs, r.calls)

CurrentMenuTree == MenuTree(olc_prototype, olc_new)

---------------------------------------------------------------------------
(* Actions: the user picks an option of the current node.                  *)

\* an option whose goto is the name of a node
ChooseNode ==
    \E o \in options :
        /\ o.goto # ""
        /\ last' = [op |-> "goto", arg |-> << >>, ret |-> o.goto]
        /\ UNCHANGED <<store, edits>>
        /\ Goto(CurrentMenuTree, o.goto, o.back, << >>, << >>)

\* free text at a node whose _default option is _set_property
EnterProperty ==
    \E o \in options, raw_string \in RawInputs, parse \in ParseOutcomes :
        /\ o.key = "_default" /\ o.cb = "_set_property"
        /\ Finish("_set_property", raw_string,
                  SetProperty(CurrentMenuTree, raw_string, o.prop, o.processor,
                              o.next_node, TRUE, parse))

\* free text at node_prototype_key
EnterPrototypeKey ==
    \E o \in options, raw_string \in RawInputs, parse \in ParseOutcomes :
        /\ o.key = "_default" /\ o.cb = "_check_prototype_key"
        /\ Finish("_check_prototype_key", raw_string,
                  CheckPrototypeKey(CurrentMenuTree, store, raw_string, parse))

\* free text at node_prototype_parent or node_prototype_load
ExaminePrototype ==
    \E o \in options, raw_string \in RawInputs :
        /\ o.key = "_default" /\ o.cb = "_prototype_parent_examine"
        /\ Finish("_prototype_parent_examine", << >>,
                  PrototypeParentExamine(CurrentMenuTree, store, raw_string))

\* free text at node_typeclass
ExamineTypeclass ==
    \E o \in options, raw_string \in RawInputs :
        /\ o.key = "_default" /\ o.cb = "_typeclass_examine"
        /\ Finish("_typeclass_examine", << >>,
                  TypeclassExamine(CurrentMenuTree, raw_string))

\* an entry of the list of node_typeclass
SelectTypeclass ==
    \E o \in options, parse \in ParseOutcomes :
        /\ o.cb = "_typeclass_select"
        /\ Finish("_typeclass_select", o.arg,
                  TypeclassSelect(CurrentMenuTree, o.arg, parse))

\* an entry of the list of node_prototype_parent
SelectPrototypeParent ==
    \E o \in options :
        /\ o.cb = "_prototype_parent_select"
        /\ Finish("_prototype_parent_select", o.arg,
                  PrototypeParentSelect(CurrentMenuTree, o.arg))

\* an entry of the list of node_prototype_load
SelectPrototypeLoad ==
    \E o \in options :
        /\ o.cb = "_prototype_load_select"
        /\ Finish("_prototype_load_select", o.arg,
                  PrototypeLoadSelect(CurrentMenuTree, store, o.arg))

\* yes, or any other text, at the save confirmation
AcceptSave ==
    \E o \in options :
        /\ o.cb = "lambda:node_prototype_save"
        /\ Finish("lambda:node_prototype_save", << >>,
                  SaveAccept(CurrentMenuTree, olc_prototype))

\* one of the spawn options of node_prototype_spawn
ChooseSpawn ==
    \E o \in options, spawned \in BOOLEAN :
        /\ o.cb = "_spawn"
        /\ Finish("_spawn", o.arg, Spawn(CurrentMenuTree, olc_prototype, o.arg, spawned))

\* the update option of node_prototype_spawn
ChooseUpdateSpawned ==
    \E o \in options :
        /\ o.cb = "_update_spawned"
        /\ Finish("_update_spawned", << >>, UpdateSpawned(CurrentMenuTree, olc_prototype))

\* the persistence layer is shared: someone else deletes a stored prototype
OtherDeletes ==
    \E k \in store \cap Deletable :
        /\ store' = store \ {k}
        /\ UNCHANGED <<olc_prototype, olc_new, node, nodeback, text, options,
                       msgs, calls, err, last, edits>>

\* start_olc(caller, prototype=...): the prototypes the wizard is started on
StartPrototypes == {EmptyDict, DB[<<"a">>]}

\* start_olc: OLCMenu(caller, menudata, startnode='node_index',
\* olc_prototype=prototype) runs node_index
Init ==
    \E prototype \in StartPrototypes :
        LET r == NodeIndex(MenuTree(prototype, "absent"))
        IN  /\ olc_prototype = r.olc_prototype
            /\ olc_new = r.olc_new
            /\ node = "node_index"
            /\ nodeback = ""
            /\ text = r.text
            /\ options = r.options
            /\ msgs = << >>
            /\ calls = << >>
            /\ err = ""
            /\ last = [op |-> "start_olc", arg |-> prototype, ret |-> "node_index"]
            /\ store = DOMAIN DB
            /\ edits = 0

Next ==
    \/ ChooseNode
    \/ EnterProperty
    \/ EnterPrototypeKey
    \/ ExaminePrototype
    \/ ExamineTypeclass
    \/ SelectTypeclass
    \/ SelectPrototypeParent
    \/ SelectPrototypeLoad
    \/ AcceptSave
    \/ ChooseSpawn
    \/ ChooseUpdateSpawned
    \/ OtherDeletes

Spec == Init /\ [][Next]_vars

---------------------------------------------------------------------------
(* The attribute helpers on their own: _add_attr and _edit_attr called on  *)
(* a menu tree whose prototype holds some attrs.                           *)

\* the attribute tuples a prototype may hold when the helpers are called
StoredAttrs ==
    { AttrTuple(<<"x">>, << >>, << >>), AttrTuple(<<"x">>, <<"c">>, << >>),
      AttrTuple(<<"y">>, << >>, << >>), AttrTuple(<<"y">>, <<"c">>, <<"l">>) }

\* the attrs lists a prototype may hold: no two entries of one name
AttrLists ==
    { l \in UNION { [1..n -> StoredAttrs] : n \in 0..MaxAttrs } :
        \A i, j \in 1..Len(l) : l[i].attrname = l[j].attrname => i = j }

\* what _add_attr may be given as attr_string
AttrStrings ==
    { <<"x", "=", "1">>, <<"x", ";", "c", "=", "1">>,
      <<"y", ";", "c", ";", "l", "=", "2">>, <<"B", " ", "=", " ", "1">>,
      <<"x">>, <<"=", "1">> }

\* what _edit_attr may be given as attrname and as new_value
AttrNames == { <<"x">>, <<"y">>, <<"B">> }

AttrValues == { <<"1">>, <<"2", "=", "3">> }

\* the helper returned or raised; the menu is not involved
Returned(op, arg, r) ==
    /\ olc_prototype' = r.olc_prototype
    /\ olc_new' = r.olc_new
    /\ err' = r.raised
    /\ text' = IF r.raised = "" THEN r.text ELSE text
    /\ options' = IF r.raised = "" THEN r.options ELSE options
    /\ last' = [op |-> op, arg |-> arg, ret |-> None]
    /\ UNCHANGED <<node, nodeback, msgs, calls, store, edits>>

CallAddAttr ==
    \E attr_string \in AttrStrings, kwtext \in {<< >>, <<"t">>} :
        Returned("_add_attr", attr_string,
                 AddAttr(CurrentMenuTree, attr_string, kwtext, FALSE))

CallEditAttr ==
    \E attrname \in AttrNames, new_value \in AttrValues :
        Returned("_edit_attr", attrname \o <<"=">> \o new_value,
                 EditAttr(CurrentMenuTree, attrname, new_value))

InitAttrs ==
    /\ olc_prototype \in {EmptyDict} \cup { "attrs" :> l : l \in AttrLists }
    /\ olc_new = "absent"
    /\ node = "node_attrs"
    /\ nodeback = ""
    /\ text = NoText
    /\ options = {}
    /\ msgs = << >>
    /\ calls = << >>
    /\ err = ""
    /\ last = [op |-> "start_olc", arg |-> << >>, ret |-> "node_index"]
    /\ store = DOMAIN DB
    /\ edits = 0

NextAttrs ==
    \/ CallAddAttr
    \/ CallEditAttr

SpecAttrs == InitAttrs /\ [][NextAttrs]_vars

---------------------------------------------------------------------------
(* Properties *)

\* a step of the wizard itself, not of another user of the persistence layer
WizardStep == store' = store

ValidationFailed(t) == t.kind = "validation error"

HasCall(c, fn) == \E i \in 1..Len(c) : c[i].fn = fn

HasMsg(m, kind) == \E i \in 1..Len(m) : m[i].kind = kind

\* C1: every node name an option of the current node goes to, and every node
\* name the last goto-callback returned, is a node start_olc registers
C1_TargetsRegistered ==
    /\ \A o \in options : o.goto # "" => o.goto \in RegisteredNodes
    /\ last.ret \in RegisteredNodes \cup {None}

\* C2: answering yes at the save confirmation calls save_prototype exactly
\* once with the in-progress prototype, tells the caller it was saved and
\* shows the spawn screen
C2_YesSaves ==
    last.op = "lambda:node_prototype_save" =>
        /\ Len(SelectSeq(calls, LAMBDA c : c.fn = "save_prototype")) = 1
        /\ \A i \in 1..Len(calls) :
              calls[i].fn = "save_prototype" => calls[i].arg = olc_prototype
        /\ HasMsg(msgs, "Prototype saved.")
        /\ node = "node_prototype_spawn"

\* C3: when validation fails node_prototype_save offers navigation only, and
\* no step calls save_prototype except from a save screen whose validation
\* of the in-progress prototype passed
C3_SaveGated ==
    /\ [](node = "node_prototype_save" /\ ValidationFailed(text) =>
            \A o \in options : o.cb = "" /\ o.goto # "")
    /\ [][WizardStep /\ HasCall(calls', "save_prototype") =>
            /\ node = "node_prototype_save"
            /\ ~ValidationFailed(text)
            /\ \A i \in 1..Len(calls') :
                  calls'[i].fn = "save_prototype" => calls'[i].arg = olc_prototype
         ]_vars

\* the save screen was shown for a prototype that failed validation
C3_Witness ==
    /\ node = "node_prototype_save"
    /\ ValidationFailed(text)
    /\ text.val = olc_prototype
    /\ Truthy(olc_prototype)

Instantiates(c) ==
    \E i \in 1..Len(c) : c[i].fn = "spawner.spawn" /\ ~c[i].only_validate

\* C4: when validation fails node_prototype_spawn offers no option that
\* calls _spawn or _update_spawned, and spawner.spawn is called to
\* instantiate only from a spawn screen whose validation of the in-progress
\* prototype passed
C4_SpawnGated ==
    /\ [](node = "node_prototype_spawn" /\ ValidationFailed(text) =>
            \A o \in options : o.cb \notin {"_spawn", "_update_spawned"})
    /\ [][WizardStep /\ Instantiates(calls') =>
            /\ node = "node_prototype_spawn"
            /\ text.kind = "No validation errors found"
            /\ text.val = olc_prototype
         ]_vars

\* the spawn screen was shown for a prototype that failed validation
C4_Witness ==
    /\ node = "node_prototype_spawn"
    /\ ValidationFailed(text)
    /\ text.val = olc_prototype
    /\ Truthy(olc_prototype)

\* C5: _prototype_load_select replaces the in-progress prototype by the stored
\* one and goes to node_index exactly when a prototype of the selected key is
\* stored; otherwise prototype and new-flag stay, a failure message is sent,
\* None is returned and the menu stays on the load screen
C5_LoadSelect ==
    [][WizardStep /\ last'.op = "_prototype_load_select" =>
          IF last'.arg \in store
          THEN /\ olc_prototype' = DB[last'.arg]
               /\ olc_new' = "False"
               /\ last'.ret = "node_index"
               /\ node' = "node_index"
          ELSE /\ olc_prototype' = olc_prototype
               /\ olc_new' = olc_new
               /\ HasMsg(msgs', "Failed to load prototype")
               /\ last'.ret = None
               /\ node' = node /\ node = "node_prototype_load"
      ]_vars

\* a listed key was selected after its prototype had been deleted
C5_Witness ==
    /\ last.op = "_prototype_load_select"
    /\ last.arg \notin store
    /\ last.ret = None
    /\ node = "node_prototype_load"

HasBoth(prototype) ==
    "typeclass" \in DOMAIN prototype /\ "prototype_parent" \in DOMAIN prototype

\* C6: the in-progress prototype never holds both a typeclass and a
\* prototype_parent (no stored prototype of DB holds both, so the wizard's
\* setters are the only way to get there)
C6_NeverBoth == ~HasBoth(olc_prototype)

\* a typeclass was selected for the loaded prototype "a", which had a parent
C6_Witness ==
    /\ last.op = "_typeclass_select"
    /\ Get(olc_prototype, "prototype_key") = <<"a">>
    /\ "typeclass" \in DOMAIN olc_prototype
    /\ "prototype_parent" \notin DOMAIN olc_prototype

\* the field the setter of option o writes (menus.py:298, 337-338, 400 and
\* the prop of each _set_property option), "" when o sets nothing
WrittenBy(o) ==
    CASE o.cb = "_set_property"            -> o.prop
      [] o.cb = "_check_prototype_key"     -> "prototype_key"
      [] o.cb = "_typeclass_select"        -> "typeclass"
      [] o.cb = "_prototype_parent_select" -> "prototype_parent"
      [] OTHER                             -> ""

\* C7: a field screen whose field holds a value shows that value as current
C7_ScreenShowsField ==
    \A o \in options :
        WrittenBy(o) # "" /\ Truthy(Get(olc_prototype, WrittenBy(o))) =>
            text = Text("current", Get(olc_prototype, WrittenBy(o)))

\* the field the screen behind each option of node_index writes
ScreenField(label) ==
    CASE label = "Prototype-Key"    -> "prototype_key"
      [] label = "Typeclass"        -> "typeclass"
      [] label = "Prototype-parent" -> "prototype_parent"
      [] label = "Key"              -> "key"
      [] label = "Aliases"          -> "aliases"
      [] label = "Attrs"            -> "attrs"
      [] label = "Tags"             -> "tags"
      [] label = "Locks"            -> "locks"
      [] label = "Permissions"      -> "permissions"
      [] label = "Location"         -> "location"
      [] label = "Home"             -> "home"
      [] label = "Destination"      -> "dest"
      [] label = "Prototype-Desc"   -> "prototype_desc"
      [] label = "Prototype-Tags"   -> "prototype_tags"
      [] label = "Prototype-Locks"  -> "prototype_locks"
      [] OTHER                      -> ""

\* C8: on the index screen the description of a field's option shows the
\* value the in-progress prototype holds under the field the option's screen
\* writes, and is empty or "required" only when that field is unset
C8_IndexShowsValues ==
    node = "node_index" =>
        \A o \in options :
            ScreenField(o.label) # "" =>
                IF Truthy(Get(olc_prototype, ScreenField(o.label)))
                THEN o.desc = FormatOptionValue(ScreenField(o.label), FALSE,
                                  olc_prototype,
                                  IF o.label = "Typeclass" THEN "path" ELSE "")
                ELSE o.desc \in {<< >>, Required}

\* C9: going to a node that views or validates leaves the in-progress
\* prototype as it was, calls the spawner in validate-only mode only and
\* does not call save_prototype
C9_ViewChangesNothing ==
    [][WizardStep /\ last'.op = "goto" /\ last'.ret \in ValidatingNodes =>
          /\ olc_prototype' = olc_prototype
          /\ ~Instantiates(calls')
          /\ ~HasCall(calls', "save_prototype")
      ]_vars

\* a non-empty prototype was viewed and validated
C9_Witness ==
    /\ node = "node_view_prototype"
    /\ last.ret = "node_view_prototype"
    /\ Truthy(olc_prototype)
    /\ HasCall(calls, "spawner.spawn")

C11_ParseOnlySimulated ==
    [][WizardStep /\ last'.op = "_set_property" =>
          \A o \in options :
              o.cb = "_set_property" /\ ~ProcessorRaises(o.processor, last'.arg) =>
                  LET value == ProcessorValue(o.processor, last'.arg)
                  IN  /\ last'.ret = o.next_node
                      /\ Truthy(value) =>
                            /\ Get(olc_prototype', o.prop) = value
                            /\ msgs'[1].value = value
                            /\ \A f \in DOMAIN olc_prototype' \ {o.prop} :
                                  Get(olc_prototype', f) = Get(olc_prototype, f)
      ]_vars

\* the parser made something else of the key that was entered; the field
\* holds what was entered
C11_Witness ==
    /\ last.op = "_set_property"
    /\ Len(msgs) = 1 /\ msgs[1].kind = "Set"
    /\ msgs[1].parse = <<"value when parsed">>
    /\ msgs[1].prop = "key"
    /\ Get(olc_prototype, "key") = <<"a">>
    /\ node = "node_aliases"

\* the key entered matches a stored prototype whose 'edit' lock the caller
\* does not pass
Denied(st, raw_key) ==
    \E q \in SearchPrototype(st, raw_key) : ~PassesEdit(q["prototype_locks"])

C13_NewExactlyWhenCreated ==
    IsNewPrototype(CurrentMenuTree) <=> olc_new = "True"

\* C14: right after start_olc the menu is at node_index; started without a
\* prototype the in-progress prototype is empty and reported new, started
\* with a non-empty prototype it is that prototype and not reported new
C14_StartState ==
    last.op = "start_olc" =>
        /\ node = "node_index"
        /\ err = ""
        /\ IF Truthy(last.arg)
           THEN olc_prototype = last.arg /\ ~IsNewPrototype(CurrentMenuTree)
           ELSE olc_prototype = EmptyDict /\ IsNewPrototype(CurrentMenuTree)

\* the wizard was started on the stored prototype "a"
C14_Witness ==
    /\ last.op = "start_olc"
    /\ last.arg = DB[<<"a">>]
    /\ olc_prototype = DB[<<"a">>]
    /\ node = "node_index"

\* C15: the update option of the spawn screen is offered only when objects
\* of the prototype's key exist, and choosing it calls
\* spawner.batch_update_objects_with_prototype with the in-progress
\* prototype and those objects and reports the number updated
C15_UpdateApplies ==
    /\ node = "node_prototype_spawn" =>
          \A o \in options :
              o.cb = "_update_spawned" =>
                  SpawnedObjects(Get(olc_prototype, "prototype_key")) # {}
    /\ last.op = "_update_spawned" =>
          /\ err = ""
          /\ \E i \in 1..Len(calls) :
                /\ calls[i].fn = "batch_update_objects_with_prototype"
                /\ calls[i].arg =
                      <<olc_prototype,
                        SpawnedObjects(Get(olc_prototype, "prototype_key"))>>
          /\ HasMsg(msgs, "objects were updated successfully")

\* C16: a permitted key that matches a stored prototype while the
\* in-progress prototype is marked new (olc_new is True) loads the stored
\* prototype, clears the flag and returns node_index; any other permitted,
\* non-empty key is stored stripped and lower-cased as prototype_key and
\* node_prototype_parent is returned
C16_CheckPrototypeKey ==
    [][WizardStep /\ last'.op = "_check_prototype_key"
                  /\ ~Denied(store, last'.arg) =>
          LET found == SearchPrototype(store, last'.arg)
              key == Lower(Strip(last'.arg))
          IN  IF found # {} /\ olc_new = "True"
              THEN /\ olc_prototype' \in found
                   /\ olc_new' = "absent"
                   /\ last'.ret = "node_index"
              ELSE Truthy(key) =>
                     /\ olc_prototype' = Put(olc_prototype, "prototype_key", key)
                     /\ olc_new' = olc_new
                     /\ last'.ret = "node_prototype_parent"
      ]_vars

\* C17: empty or whitespace-only input on a free-text field screen leaves
\* the in-progress prototype as it was and moves to the next node of the
\* screen
C17_EmptyInputKeeps ==
    [][WizardStep /\ last'.op = "_set_property" /\ Strip(last'.arg) = << >> =>
          /\ olc_prototype' = olc_prototype
          /\ \A o \in options :
                o.cb = "_set_property" =>
                    last'.ret = o.next_node /\ node' = o.next_node
      ]_vars

\* C18: _add_attr and _edit_attr, given a non-empty name, replace the entry
\* of that name in place when attrs has one and append a new entry
\* otherwise; the other entries stay
C18_AddAttrReplacesOrAppends ==
    [][last'.op \in {"_add_attr", "_edit_attr"}
         /\ Truthy(ParseAttr(last'.arg).attrname) =>
          LET attr_tuple == ParseAttr(last'.arg)
              attrs == Get(olc_prototype, "attrs")
              ind == IndexOf(attrs, attr_tuple.attrname)
          IN  Get(olc_prototype', "attrs") =
                  IF ind # 0 THEN [attrs EXCEPT ![ind] = attr_tuple]
                  ELSE Append(attrs, attr_tuple)
      ]_vars

\* the nodes of the wizard chain
WizardChain ==
    {"node_prototype_key", "node_prototype_parent", "node_typeclass",
     "node_key", "node_aliases", "node_attrs", "node_tags", "node_locks",
     "node_permissions", "node_location", "node_home", "node_destination",
     "node_prototype_desc", "node_prototype_tags", "node_prototype_locks"}

\* C19: back inverts forward: when the forward option of the current chain
\* node leads to a chain node, the back option of that node leads to the
\* current one
C19_BackInvertsForward ==
    node \in WizardChain =>
        \A o \in options :
            o.key = "f" /\ o.goto \in WizardChain =>
                \E b \in RunNode(o.goto, CurrentMenuTree, store, "", "ok").options :
                    b.key = "b" /\ b.goto = node

===========================================================================
